---------------------------- MODULE Spec2Model ----------------------------
(***************************************************************************)
(* Fencing estimator: the estimate calculation (app/estimator.py           *)
(* calculate_estimate), the bill-of-materials builder (build_fence_bom),   *)
(* the pricebook lookup (app/pricebook_loader.py get_item) and the three   *)
(* request handlers of app/main.py.                                        *)
(*                                                                         *)
(* Numbers.  The program computes in binary floating point.  Quantities,   *)
(* hours, prices and rates are drawn here from binary fractions (quarters  *)
(* and eighths), on which the program's products and sums are exact, and   *)
(* are held as integer numerators: a quantity q stands for q/4, a price p  *)
(* for p/8 dollars, an unrounded amount a for a/800 dollars (so that both  *)
(* 1/32 dollar and one cent are whole numbers of units).  round(x, 2)      *)
(* of an exact binary value is the correctly rounded, ties-to-even result; *)
(* rounded amounts are held in cents.  The one inexact operation is        *)
(* margin_pct / 100.0: when the quotient is no binary fraction, the margin *)
(* and the total carry a representation error, and a value that is         *)
(* mathematically on half a cent rounds to either neighbouring cent.       *)
(***************************************************************************)
EXTENDS Integers, Sequences, FiniteSets

VARIABLES pricebook, pc, call, result, calc_calls

vars == <<pricebook, pc, call, result, calc_calls>>

(* Fixed-point scales: denominators of the integer numerators. *)
Scale == [qty |-> 4, price |-> 8, money |-> 800, len |-> 2, ratio |-> 10000]
QDen == Scale.qty
PDen == Scale.price
MoneyDen == Scale.money
LenDen == Scale.len
RatioDen == Scale.ratio

(* ------------------------------ bounds -------------------------------- *)
MaxLines == 3
MaxReqLines == 2
MaxGates == 2

(* --------------------------- pricebook items -------------------------- *)
(* PricebookItem; unit_cost is never read by the estimator and is left out.
   category None is the empty string, which the loader never stores.      *)
PricebookItem(sku, description, unit, unit_price, category) ==
    [sku |-> sku, description |-> description, unit |-> unit,
     unit_price |-> unit_price, category |-> category]

(* A Pricebook is a dict keyed by SKU, iterated in insertion order: a
   sequence of items with distinct SKUs.                                  *)
SkuIndex(pb, sku) ==
    IF \E i \in 1..Len(pb) : pb[i].sku = sku
    THEN CHOOSE i \in 1..Len(pb) : pb[i].sku = sku
    ELSE 0

(* Exceptions carry the message as its fixed text and the interpolated value. *)
Raise(type, text, arg) == [kind |-> "raise", type |-> type, text |-> text, arg |-> arg]

SkuNotFoundText == "SKU not found in pricebook: "

(* get_item: the item, or KeyError naming the SKU. *)
get_item(pb, sku) ==
    IF SkuIndex(pb, sku) # 0
    THEN [kind |-> "item", item |-> pb[SkuIndex(pb, sku)]]
    ELSE Raise("KeyError", SkuNotFoundText, sku)

(* ------------------------------ rounding ------------------------------ *)
(* round(num/den, 2) in cents for an exactly represented value: correctly
   rounded, ties to even.                                                 *)
RoundHalfEven(n, d) ==
    LET fl == n \div d
        r2 == 2 * (n - fl * d)
    IN  IF r2 > d \/ (r2 = d /\ fl % 2 = 1) THEN fl + 1 ELSE fl

_round_money(num, den) == RoundHalfEven(num * 100, den)

(* The hundredths round(x, 2) can return when x was computed with a
   representation error from the exact value n/d hundredths: on a tie the
   error decides, either way.                                             *)
RoundInexact(n, d) ==
    IF 2 * (n - (n \div d) * d) = d
    THEN {n \div d, (n \div d) + 1}
    ELSE {RoundHalfEven(n, d)}

(* margin_pct / 100.0 is exact when the quotient is a binary fraction. *)
MarginFactorExact(margin_pct) == margin_pct % 25 = 0

(* --------------------------- calculate_estimate ----------------------- *)
LineItemInput(sku, quantity) == [sku |-> sku, quantity |-> quantity]

NonNegativeText == "labor_hours, labor_rate, and margin_pct must be non-negative"
QuantityText == "Quantity must be positive for SKU "

LaborRejected(labor_hours, labor_rate, margin_pct) ==
    labor_hours < 0 \/ labor_rate < 0 \/ margin_pct < 0

QuantityRejectedMut(quantity) == quantity < 0

QuantityRejected(quantity) == quantity <= 0

(* extended_price = item.quantity * pb_item.unit_price, unrounded, in
   1/MoneyDen dollars.                                                    *)
ExtendedPriceMut(quantity, unit_price) == (unit_price * MoneyDen) \div PDen

ExtendedPrice(quantity, unit_price) ==
    (quantity * unit_price * MoneyDen) \div (QDen * PDen)

(* materials_subtotal += extended_price *)
AccumulateRoundedMut(materials_subtotal, extended_price) ==
    materials_subtotal + (_round_money(extended_price, MoneyDen) * MoneyDen) \div 100

AccumulateLastMut(materials_subtotal, extended_price) == extended_price

Accumulate(materials_subtotal, extended_price) ==
    materials_subtotal + extended_price

LineItemEstimate(pb_item, item, extended_price) ==
    [sku |-> pb_item.sku,
     description |-> pb_item.description,
     quantity |-> item.quantity,
     unit |-> pb_item.unit,
     unit_price |-> pb_item.unit_price,
     extended_price |-> _round_money(extended_price, MoneyDen)]

(* The loop over line_items from position i on: the first failing line
   raises and nothing of estimated_lines is returned.                     *)
RECURSIVE PriceLines(_, _, _, _, _)
PriceLines(pb, line_items, i, estimated_lines, materials_subtotal) ==
    IF i > Len(line_items)
    THEN [kind |-> "priced", estimated_lines |-> estimated_lines,
          materials_subtotal |-> materials_subtotal]
    ELSE LET item == line_items[i]
             got == get_item(pb, item.sku)
         IN  IF QuantityRejected(item.quantity)
             THEN Raise("ValueError", QuantityText, item.sku)
             ELSE IF got.kind = "raise"
             THEN got
             ELSE LET extended_price == ExtendedPrice(item.quantity, got.item.unit_price)
                  IN  PriceLines(pb, line_items, i + 1,
                          Append(estimated_lines,
                                 LineItemEstimate(got.item, item, extended_price)),
                          Accumulate(materials_subtotal, extended_price))

(* labor_total, subtotal in 1/MoneyDen dollars; margin_amount and total
   as exact fractions over 100 * MoneyDen.                                *)
LaborTotal(labor_hours, labor_rate) ==
    (labor_hours * labor_rate * MoneyDen) \div (QDen * PDen)

Subtotal(materials_subtotal, labor_total) == materials_subtotal + labor_total

MarginNum(materials_subtotal, subtotal, margin_pct) == subtotal * margin_pct

(* The rounded cents of an amount num/(100 * MoneyDen) dollars, that is
   num/MoneyDen cents, that went through margin_pct / 100.0.              *)
RoundThroughMargin(num, margin_pct) ==
    IF MarginFactorExact(margin_pct)
    THEN {RoundHalfEven(num, MoneyDen)}
    ELSE RoundInexact(num, MoneyDen)

EstimateBreakdown(priced, labor_hours, labor_rate, margin_pct, margin_amount, total) ==
    [kind |-> "breakdown",
     materials_subtotal |-> _round_money(priced.materials_subtotal, MoneyDen),
     labor_hours |-> _round_money(labor_hours, QDen),
     labor_rate |-> _round_money(labor_rate, PDen),
     labor_total |-> _round_money(LaborTotal(labor_hours, labor_rate), MoneyDen),
     subtotal |-> _round_money(Subtotal(priced.materials_subtotal,
                                        LaborTotal(labor_hours, labor_rate)), MoneyDen),
     margin_pct |-> _round_money(margin_pct, 1),
     margin_amount |-> margin_amount,
     total |-> total,
     line_items |-> priced.estimated_lines]

(* calculate_estimate: the set of outcomes (one, except on a half-cent tie
   of an inexactly computed margin or total).                             *)
calculate_estimate(pb, line_items, labor_hours, labor_rate, margin_pct) ==
    IF LaborRejected(labor_hours, labor_rate, margin_pct)
    THEN {Raise("ValueError", NonNegativeText, "")}
    ELSE LET priced == PriceLines(pb, line_items, 1, <<>>, 0)
         IN  IF priced.kind = "raise"
             THEN {priced}
             ELSE LET subtotal == Subtotal(priced.materials_subtotal,
                                           LaborTotal(labor_hours, labor_rate))
                      margin == MarginNum(priced.materials_subtotal, subtotal, margin_pct)
                  IN  {EstimateBreakdown(priced, labor_hours, labor_rate, margin_pct, ma, tot) :
                         <<ma, tot>> \in RoundThroughMargin(margin, margin_pct)
                                         \X RoundThroughMargin(subtotal * 100 + margin, margin_pct)}

(* ----------------------------- build_fence_bom ------------------------ *)
(* FenceEstimateInput: fence_length_ft in 1/LenDen feet, posts_per_ft in
   1/RatioDen, gates an integer.  The lengths and ratios drawn below make
   fence_length_ft * posts_per_ft either exact or no whole number, so that
   ceil of the float product is ceil of the exact product.                *)
FenceEstimateInput(fence_length_ft, style, posts_per_ft, gates) ==
    [fence_length_ft |-> fence_length_ft, style |-> style,
     posts_per_ft |-> posts_per_ft, gates |-> gates]

MinPosts == 2
rails_per_section == 2
PicketsPerFtWood == 2
PicketsPerFtOther == 2
BagsPerPostNum == 3
BagsPerPostDen == 4
PicketsPerBox == 200
MinFastenerBoxes == 1

Max(a, b) == IF a >= b THEN a ELSE b

(* math.ceil of the fraction n/d, d > 0 *)
CeilDiv(n, d) == -((-n) \div d)

(* An integer count as a LineItemInput quantity (1/QDen units). *)
Whole(n) == n * QDen

PostsQtyNoFloorMut(fence) ==
    CeilDiv(fence.fence_length_ft * fence.posts_per_ft, LenDen * RatioDen)

posts_qty(fence) ==
    Max(MinPosts, CeilDiv(fence.fence_length_ft * fence.posts_per_ft, LenDen * RatioDen))

rails_qty(fence) == Max(0, (posts_qty(fence) - 1) * rails_per_section)

pickets_per_ft(fence) ==
    IF fence.style = "wood" THEN PicketsPerFtWood ELSE PicketsPerFtOther

pickets_qty(fence) == CeilDiv(fence.fence_length_ft * pickets_per_ft(fence), LenDen)

concrete_qty(fence) == CeilDiv(posts_qty(fence) * BagsPerPostNum, BagsPerPostDen)

fasteners_boxes(fence) == Max(MinFastenerBoxes, CeilDiv(pickets_qty(fence), PicketsPerBox))

gate_qty(fence) == Max(0, fence.gates)

NoCategoryText == "No pricebook item with category="

(* pick_by_category: the first item, in the pricebook's iteration order,
   whose category equals the string; KeyError naming the category if none. *)
PickLastMut(pb, category) ==
    LET hits == {i \in 1..Len(pb) : pb[i].category = category}
    IN  IF hits = {}
        THEN Raise("KeyError", NoCategoryText, category)
        ELSE [kind |-> "item", item |-> pb[CHOOSE i \in hits : \A j \in hits : j <= i]]

pick_by_category(pb, category) ==
    LET hits == {i \in 1..Len(pb) : pb[i].category = category}
    IN  IF hits = {}
        THEN Raise("KeyError", NoCategoryText, category)
        ELSE [kind |-> "item", item |-> pb[CHOOSE i \in hits : \A j \in hits : i <= j]]

RequiredCategories == <<"post", "rail", "picket", "concrete", "fastener">>

(* The five required lookups, in the order of lines 59-63: the first that
   fails raises.                                                          *)
RECURSIVE PickRequired(_, _, _)
PickRequired(pb, k, picked) ==
    IF k > Len(RequiredCategories)
    THEN [kind |-> "picked", items |-> picked]
    ELSE LET got == pick_by_category(pb, RequiredCategories[k])
         IN  IF got.kind = "raise" THEN got
             ELSE PickRequired(pb, k + 1, Append(picked, got.item))

RequiredQuantities(fence) ==
    << posts_qty(fence), rails_qty(fence), pickets_qty(fence),
       concrete_qty(fence), fasteners_boxes(fence) >>

(* The gate line: looked up only when gate_qty > 0, and left out when the
   lookup raises.                                                         *)
GateLines(pb, fence) ==
    IF gate_qty(fence) > 0 /\ pick_by_category(pb, "gate").kind = "item"
    THEN << LineItemInput(pick_by_category(pb, "gate").item.sku, Whole(gate_qty(fence))) >>
    ELSE << >>

build_fence_bom(pb, fence) ==
    LET req == PickRequired(pb, 1, <<>>)
    IN  IF req.kind = "raise"
        THEN req
        ELSE [kind |-> "bom",
              bom |-> [k \in 1..Len(RequiredCategories) |->
                          LineItemInput(req.items[k].sku, Whole(RequiredQuantities(fence)[k]))]
                      \o GateLines(pb, fence)]

(* ------------------------------- handlers ----------------------------- *)
HTTPException(status_code, text, arg) ==
    [kind |-> "http_error", status_code |-> status_code, text |-> text, arg |-> arg]

OneLineRequiredText == "At least one line item is required"
NotLoadedText == "Pricebook is not loaded"

(* _ensure_pricebook: `not pricebook` holds of an empty dict. *)
PricebookMissing(pb) == Len(pb) = 0

(* except KeyError / except ValueError: HTTP 400 with str(exc) *)
AsBadRequest(exc) == HTTPException(400, exc.text, exc.arg)

Outcome(res, calls) == [result |-> res, calc_calls |-> calls]

EmptyRejected(line_items) == Len(line_items) = 0

(* create_estimate and create_purchase_order up to the response: the
   outcomes with the number of calculate_estimate calls made.             *)
PriceRequest(pb, line_items, labor_hours, labor_rate, margin_pct, kind, pdf) ==
    IF EmptyRejected(line_items)
    THEN {Outcome(HTTPException(400, OneLineRequiredText, ""), 0)}
    ELSE IF PricebookMissing(pb)
    THEN {Outcome(HTTPException(500, NotLoadedText, ""), 0)}
    ELSE {Outcome(IF r.kind = "raise" THEN AsBadRequest(r)
                  ELSE [kind |-> kind, estimate |-> r, pdf |-> pdf], 1) :
            r \in calculate_estimate(pb, line_items, labor_hours, labor_rate, margin_pct)}

create_estimate(pb, req) ==
    PriceRequest(pb, req.line_items, req.labor_hours, req.labor_rate, req.margin_pct,
                 "payload", req.include_pdf)

create_purchase_order(pb, req) ==
    PriceRequest(pb, req.line_items, 0, 0, 0, "pdf_response", TRUE)

create_fence_estimate(pb, req) ==
    IF PricebookMissing(pb)
    THEN {Outcome(HTTPException(500, NotLoadedText, ""), 0)}
    ELSE LET built == build_fence_bom(pb, req.fence)
         IN  IF built.kind = "raise"
             THEN {Outcome(AsBadRequest(built), 0)}
             ELSE {Outcome(IF r.kind = "raise" THEN AsBadRequest(r)
                           ELSE [kind |-> "payload", estimate |-> r, pdf |-> req.include_pdf], 1) :
                     r \in calculate_estimate(pb, built.bom, req.labor_hours,
                                              req.labor_rate, req.margin_pct)}

(* ------------------------------ input sets ---------------------------- *)
(* Two specifications share the variables: Spec runs calculate_estimate
   and the /estimate and /po handlers against pricebooks that differ in
   prices; SpecFence runs build_fence_bom and the /estimate_fence handler
   against pricebooks that differ in categories and order.                *)
RequestSkus == {"A", "B", "Z"}
Quantities == {-4, 0, 6, 12}
Hours == {-4, 0, 8, 17}
Rates == {-8, 8, 400}
Margins == {-5, 0, 10, 25}

RECURSIVE SeqsUpTo(_, _)
SeqsUpTo(S, n) ==
    IF n = 0 THEN {<<>>}
    ELSE LET shorter == SeqsUpTo(S, n - 1)
         IN  shorter \cup {Append(s, x) : s \in {t \in shorter : Len(t) = n - 1}, x \in S}

LineChoices == {LineItemInput(sku, q) : sku \in RequestSkus, q \in Quantities}

EstimatePricebooks ==
    { << PricebookItem("A", "Cedar picket", "ea", 2, "picket"),
         PricebookItem("B", "Deck screw", "ea", 1, "fastener") >>,
      << PricebookItem("B", "Concrete mix", "bag", 6, "concrete"),
         PricebookItem("A", "Treated post", "ea", 80, "post") >>,
      << >> }

NoFence == [fence_length_ft |-> 0, style |-> "", posts_per_ft |-> 0, gates |-> 0]
NoResult == [kind |-> "none"]

Call(op, line_items, labor_hours, labor_rate, margin_pct, fence, include_pdf) ==
    [op |-> op, line_items |-> line_items, labor_hours |-> labor_hours,
     labor_rate |-> labor_rate, margin_pct |-> margin_pct, fence |-> fence,
     include_pdf |-> include_pdf]

NoCall == Call("none", <<>>, 0, 0, 0, NoFence, FALSE)

(* ------------------------------- actions ------------------------------ *)
Init ==
    /\ pricebook \in EstimatePricebooks
    /\ pc = "idle"
    /\ call = NoCall
    /\ result = NoResult
    /\ calc_calls = 0

(* A direct call of the core. *)
CalculateEstimate ==
    /\ pc = "idle"
    /\ \E line_items \in SeqsUpTo(LineChoices, MaxLines), labor_hours \in Hours,
          labor_rate \in Rates, margin_pct \in Margins :
          /\ call' = Call("calculate_estimate", line_items, labor_hours, labor_rate,
                          margin_pct, NoFence, FALSE)
          /\ result' \in calculate_estimate(pricebook, line_items, labor_hours,
                                            labor_rate, margin_pct)
    /\ calc_calls' = 1
    /\ pc' = "done"
    /\ UNCHANGED pricebook

(* The caller takes the outcome; the process serves the next call with the
   same pricebook.                                                        *)
NextRequest ==
    /\ pc = "done"
    /\ pc' = "idle"
    /\ call' = NoCall
    /\ result' = NoResult
    /\ calc_calls' = 0
    /\ UNCHANGED pricebook

(* The request models of main.py: pydantic rejects a request outside them
   before the handler runs.                                               *)
ValidLineItem(l) == l.quantity > 0

ValidLabor(labor_hours, labor_rate, margin_pct) ==
    labor_hours >= 0 /\ labor_rate >= 0 /\ margin_pct >= 0

ValidFence(fence) ==
    fence.fence_length_ft > 0 /\ fence.posts_per_ft > 0 /\ fence.gates >= 0

RequestLines == SeqsUpTo({l \in LineChoices : ValidLineItem(l)}, MaxReqLines)

CreateEstimate ==
    /\ pc = "idle"
    /\ \E line_items \in RequestLines, labor_hours \in Hours, labor_rate \in Rates,
          margin_pct \in Margins, include_pdf \in BOOLEAN :
          /\ ValidLabor(labor_hours, labor_rate, margin_pct)
          /\ call' = Call("create_estimate", line_items, labor_hours, labor_rate,
                          margin_pct, NoFence, include_pdf)
          /\ \E out \in create_estimate(pricebook, call') :
                result' = out.result /\ calc_calls' = out.calc_calls
    /\ pc' = "done"
    /\ UNCHANGED pricebook

CreatePurchaseOrder ==
    /\ pc = "idle"
    /\ \E line_items \in RequestLines :
          /\ call' = Call("create_purchase_order", line_items, 0, 0, 0, NoFence, FALSE)
          /\ \E out \in create_purchase_order(pricebook, call') :
                result' = out.result /\ calc_calls' = out.calc_calls
    /\ pc' = "done"
    /\ UNCHANGED pricebook

Next ==
    CalculateEstimate \/ CreateEstimate \/ CreatePurchaseOrder \/ NextRequest

Spec == Init /\ [][Next]_vars

(* ------------------------------ fence calls --------------------------- *)
Lengths == {-10, 0, 1, 24, 200, 201}
Ratios == {833, 1250, 5000}
Styles == {"wood", "vinyl"}
GateCounts == -1..MaxGates

FenceInputs ==
    {FenceEstimateInput(l, s, r, g) : l \in Lengths, s \in Styles, r \in Ratios,
                                       g \in GateCounts}

FenceItems ==
    << PricebookItem("POST-4X4", "4x4 treated post", "ea", 100, "post"),
       PricebookItem("POST-6X6", "6x6 treated post", "ea", 180, "post"),
       PricebookItem("RAIL-2X4", "2x4 rail", "ea", 52, "rail"),
       PricebookItem("PICKET-1X6", "1x6 cedar picket", "ea", 18, "picket"),
       PricebookItem("CONC-50", "Concrete mix 50 lb", "bag", 46, "concrete"),
       PricebookItem("FAST-BOX", "Deck screws", "box", 79, "fastener"),
       PricebookItem("GATE-STD", "Walk gate kit", "ea", 1200, "gate"),
       PricebookItem("POST-CAP", "Post cap", "ea", 10, "Post") >>

Reverse(s) == [i \in 1..Len(s) |-> s[Len(s) + 1 - i]]

RECURSIVE Without(_, _)
Without(s, drop) ==
    IF s = <<>> THEN <<>>
    ELSE IF Head(s).sku \in drop THEN Without(Tail(s), drop)
    ELSE <<Head(s)>> \o Without(Tail(s), drop)

FenceSkus == {FenceItems[i].sku : i \in 1..Len(FenceItems)}

(* The full pricebook in both orders, with up to two items left out, and the
   empty pricebook.                                                       *)
FencePricebooks ==
    {Without(order, drop) : order \in {FenceItems, Reverse(FenceItems)},
                            drop \in {d \in SUBSET FenceSkus : Cardinality(d) <= 2}}
    \cup {<< >>}

InitFence ==
    /\ pricebook \in FencePricebooks
    /\ pc = "idle"
    /\ call = NoCall
    /\ result = NoResult
    /\ calc_calls = 0

BuildFenceBom ==
    /\ pc = "idle"
    /\ \E fence \in FenceInputs :
          /\ call' = Call("build_fence_bom", <<>>, 0, 0, 0, fence, FALSE)
          /\ result' = build_fence_bom(pricebook, fence)
    /\ calc_calls' = 0
    /\ pc' = "done"
    /\ UNCHANGED pricebook

CreateFenceEstimate ==
    /\ pc = "idle"
    /\ \E fence \in FenceInputs, labor_hours \in Hours, labor_rate \in Rates,
          margin_pct \in Margins, include_pdf \in BOOLEAN :
          /\ ValidFence(fence)
          /\ ValidLabor(labor_hours, labor_rate, margin_pct)
          /\ call' = Call("create_fence_estimate", <<>>, labor_hours, labor_rate,
                          margin_pct, fence, include_pdf)
          /\ \E out \in create_fence_estimate(pricebook, call') :
                result' = out.result /\ calc_calls' = out.calc_calls
    /\ pc' = "done"
    /\ UNCHANGED pricebook

NextFence == BuildFenceBom \/ CreateFenceEstimate \/ NextRequest

SpecFence == InitFence /\ [][NextFence]_vars

(* ============================ properties ============================== *)
Returned(op) == pc = "done" /\ call.op = op

Abs(x) == IF x < 0 THEN -x ELSE x

(* c hundredths is the correct rounding of num/den to two places: within
   half a hundredth, and the even neighbour on a tie.                     *)
NearestCent(c, num, den) ==
    /\ 2 * Abs(num * 100 - c * den) <= den
    /\ 2 * Abs(num * 100 - c * den) = den => c % 2 = 0

CatalogSkus == {pricebook[j].sku : j \in 1..Len(pricebook)}
CatalogItem(sku) == pricebook[CHOOSE j \in 1..Len(pricebook) : pricebook[j].sku = sku]

LaborValid == call.labor_hours >= 0 /\ call.labor_rate >= 0 /\ call.margin_pct >= 0
BadQuantityAt(i) == call.line_items[i].quantity <= 0
MissingSkuAt(i) == call.line_items[i].sku \notin CatalogSkus
OffendingLines == {i \in 1..Len(call.line_items) : BadQuantityAt(i) \/ MissingSkuAt(i)}
ValidCall == LaborValid /\ OffendingLines = {}

(* Exact sums over the call's lines, in 1/(QDen * PDen) dollars and cents. *)
RECURSIVE SumProducts(_)
SumProducts(n) ==
    IF n = 0 THEN 0
    ELSE SumProducts(n - 1)
         + call.line_items[n].quantity * CatalogItem(call.line_items[n].sku).unit_price

RECURSIVE SumExtended(_)
SumExtended(n) ==
    IF n = 0 THEN 0 ELSE SumExtended(n - 1) + result.line_items[n].extended_price

(* C1 as stated: calculate_estimate with non-negative labor and margin
   raises ValueError naming the SKU of a line with quantity <= 0 whenever
   there is such a line, and KeyError naming a missing SKU whenever a
   line's SKU is absent from the catalog; no breakdown is returned.  (Read
   in the claim's favour: a line with both defects counts as a quantity
   error only.)                                                           *)
C1_AnyBadLineRaisesItsError ==
    (Returned("calculate_estimate") /\ LaborValid) =>
        /\ (\E i \in 1..Len(call.line_items) : BadQuantityAt(i)) =>
              /\ result.kind = "raise" /\ result.type = "ValueError"
              /\ result.text = QuantityText
              /\ \E i \in 1..Len(call.line_items) :
                    BadQuantityAt(i) /\ result.arg = call.line_items[i].sku
        /\ (\E i \in 1..Len(call.line_items) : MissingSkuAt(i) /\ ~BadQuantityAt(i)) =>
              /\ result.kind = "raise" /\ result.type = "KeyError"
              /\ result.text = SkuNotFoundText
              /\ \E i \in 1..Len(call.line_items) :
                    MissingSkuAt(i) /\ result.arg = call.line_items[i].sku

(* C1 amended: the first offending line in input order decides the error:
   ValueError naming its SKU if its quantity is <= 0 (checked before the
   lookup), otherwise KeyError naming its SKU; no breakdown is returned,
   whatever the lines before it.                                          *)
C1_FirstOffendingLineDecides ==
    (Returned("calculate_estimate") /\ LaborValid /\ OffendingLines # {}) =>
        LET f == CHOOSE i \in OffendingLines : \A j \in OffendingLines : i <= j
        IN  /\ result.kind = "raise"
            /\ result.arg = call.line_items[f].sku
            /\ BadQuantityAt(f) => result.type = "ValueError" /\ result.text = QuantityText
            /\ ~BadQuantityAt(f) => result.type = "KeyError" /\ result.text = SkuNotFoundText

(* A priced line, then a line with a missing SKU, then a line with a
   non-positive quantity: the missing SKU is what is reported.            *)
C1_Witness ==
    /\ Returned("calculate_estimate") /\ LaborValid
    /\ Len(call.line_items) = 3
    /\ 1 \notin OffendingLines
    /\ MissingSkuAt(2) /\ ~BadQuantityAt(2)
    /\ BadQuantityAt(3)
    /\ result.kind = "raise" /\ result.type = "KeyError"

(* The field names a message text holds, and the fields of the call that
   are negative.                                                          *)
LaborFieldsNamed(text) ==
    IF text = NonNegativeText THEN {"labor_hours", "labor_rate", "margin_pct"} ELSE {}

NegativeLaborFields ==
    {f \in {"labor_hours", "labor_rate", "margin_pct"} : call[f] < 0}

(* C2: a negative labor_hours, labor_rate or margin_pct aborts
   calculate_estimate with a ValueError, whatever the line items, and the
   error identifies which of the three fields is the offending one.       *)
C2_NegativeLaborIdentified ==
    (Returned("calculate_estimate") /\ NegativeLaborFields # {}) =>
        /\ result.kind = "raise" /\ result.type = "ValueError"
        /\ LaborFieldsNamed(result.text) # {}
        /\ LaborFieldsNamed(result.text) \subseteq NegativeLaborFields

(* C3: a valid call returns one priced line per input line, in input order,
   the i-th with the i-th input's SKU and quantity, the catalog's
   description, unit and unit_price of that SKU, and extended_price the
   two-place rounding of quantity * unit_price; duplicates are not merged. *)
C3_PricedLinesMatchInput ==
    (Returned("calculate_estimate") /\ ValidCall) =>
        /\ result.kind = "breakdown"
        /\ Len(result.line_items) = Len(call.line_items)
        /\ \A i \in 1..Len(call.line_items) :
              LET in == call.line_items[i]
                  out == result.line_items[i]
                  it == CatalogItem(in.sku)
              IN  /\ out.sku = in.sku /\ out.quantity = in.quantity
                  /\ out.description = it.description /\ out.unit = it.unit
                  /\ out.unit_price = it.unit_price
                  /\ NearestCent(out.extended_price, in.quantity * it.unit_price, QDen * PDen)

(* Three lines, two of them for the same SKU, one with a product on half a
   cent.                                                                  *)
C3_Witness ==
    /\ Returned("calculate_estimate") /\ ValidCall
    /\ Len(result.line_items) = 3
    /\ call.line_items[1].sku = call.line_items[3].sku
    /\ call.line_items[1].sku # call.line_items[2].sku
    /\ \E i \in 1..3 : (call.line_items[i].quantity
                         * CatalogItem(call.line_items[i].sku).unit_price * 100)
                        % (QDen * PDen) = (QDen * PDen) \div 2

(* C4: for a valid call materials_subtotal is the two-place rounding of the
   sum of the unrounded products quantity_i * unit_price_i, rounded once.  *)
C4_MaterialsFromUnrounded ==
    (Returned("calculate_estimate") /\ ValidCall) =>
        /\ result.kind = "breakdown"
        /\ NearestCent(result.materials_subtotal, SumProducts(Len(call.line_items)), QDen * PDen)

(* The rounded sum differs from the sum of the rounded lines. *)
C4_Witness ==
    /\ Returned("calculate_estimate") /\ ValidCall
    /\ result.kind = "breakdown"
    /\ result.materials_subtotal # SumExtended(Len(result.line_items))

(* C5: for a valid call, with M the unrounded materials sum and Lb =
   labor_hours * labor_rate: labor_total = round(Lb, 2), subtotal =
   round(M + Lb, 2), margin_amount = round((M + Lb) * margin_pct / 100, 2),
   total = round(M + Lb + (M + Lb) * margin_pct / 100, 2); the line (A, 3)
   at 10.00 with 2 h at 50 and margin 10 gives 130.00, 13.00, 143.00.     *)
C5_MarginOnMaterialsPlusLabor ==
    (Returned("calculate_estimate") /\ ValidCall) =>
        LET M == SumProducts(Len(call.line_items))
            Lb == call.labor_hours * call.labor_rate
            den == QDen * PDen
        IN  /\ result.kind = "breakdown"
            /\ NearestCent(result.labor_total, Lb, den)
            /\ NearestCent(result.subtotal, M + Lb, den)
            /\ NearestCent(result.margin_amount, (M + Lb) * call.margin_pct, den * 100)
            /\ NearestCent(result.total, (M + Lb) * (100 + call.margin_pct), den * 100)
            /\ ( /\ Len(call.line_items) = 1
                 /\ call.line_items[1].quantity = 3 * QDen
                 /\ CatalogItem(call.line_items[1].sku).unit_price = 10 * PDen
                 /\ call.labor_hours = 2 * QDen /\ call.labor_rate = 50 * PDen
                 /\ call.margin_pct = 10 )
               => /\ result.subtotal = 13000
                  /\ result.margin_amount = 1300
                  /\ result.total = 14300

(* ------------------------------ fence claims -------------------------- *)
HasCategory(category) == \E j \in 1..Len(pricebook) : pricebook[j].category = category
AllRequiredPresent == \A k \in 1..Len(RequiredCategories) : HasCategory(RequiredCategories[k])

(* c = ceil(n/d), d > 0 *)
IsCeil(c, n, d) == c * d >= n /\ (c - 1) * d < n

(* The five required quantities of the claim, as counts. *)
ExpectedQuantities(q) ==
    LET L == call.fence.fence_length_ft
        ppf == call.fence.posts_per_ft
    IN  /\ \E c \in -10..200 : /\ IsCeil(c, L * ppf, LenDen * RatioDen)
                               /\ q[1] = (IF c >= 2 THEN c ELSE 2)
        /\ q[2] = (IF (q[1] - 1) * 2 >= 0 THEN (q[1] - 1) * 2 ELSE 0)
        /\ IsCeil(q[3], L * 2, LenDen)
        /\ IsCeil(q[4], q[1] * 3, 4)
        /\ \E c \in -10..10 : /\ IsCeil(c, q[3], 200)
                              /\ q[5] = (IF c >= 1 THEN c ELSE 1)

(* C6: with all five required categories in the catalog build_fence_bom
   returns the lines [post, rail, picket, concrete, fastener] in that order
   with posts = max(2, ceil(L * ppf)), rails = max(0, (posts - 1) * 2),
   pickets = ceil(L * 2) whatever the style, concrete = ceil(posts * 0.75),
   fasteners = max(1, ceil(pickets / 200)); a sixth line for the gate, with
   quantity gates, comes last exactly when gates > 0 and the catalog has a
   "gate" item.  L = 100, ppf = 0.0833 gives 9, 16, 200, 7, 1.            *)
C6_BomQuantitiesAndOrder ==
    (Returned("build_fence_bom") /\ AllRequiredPresent) =>
        /\ result.kind = "bom"
        /\ Len(result.bom) = (IF call.fence.gates > 0 /\ HasCategory("gate") THEN 6 ELSE 5)
        /\ \A k \in 1..5 : CatalogItem(result.bom[k].sku).category = RequiredCategories[k]
        /\ \A k \in 1..5 : result.bom[k].quantity % QDen = 0
        /\ ExpectedQuantities([k \in 1..5 |-> result.bom[k].quantity \div QDen])
        /\ Len(result.bom) = 6 =>
              /\ CatalogItem(result.bom[6].sku).category = "gate"
              /\ result.bom[6].quantity = call.fence.gates * QDen
        /\ (call.fence.fence_length_ft = 100 * LenDen /\ call.fence.posts_per_ft = 833) =>
              [k \in 1..5 |-> result.bom[k].quantity] = <<9 * QDen, 16 * QDen, 200 * QDen, 7 * QDen, QDen>>

(* The 100 ft fence of the example, not of wood, with two gates. *)
C6_Witness ==
    /\ Returned("build_fence_bom") /\ AllRequiredPresent
    /\ call.fence.fence_length_ft = 100 * LenDen /\ call.fence.posts_per_ft = 833
    /\ call.fence.style # "wood" /\ call.fence.gates = 2
    /\ result.kind = "bom" /\ Len(result.bom) = 6
    /\ result.bom[6].quantity = 2 * QDen

(* C7: each required line carries the SKU of the first catalog item, in
   iteration order, whose category equals the category string exactly; a
   required category without an item makes the call raise KeyError naming
   the (first such) category and return no BOM, whatever the length, ratio
   and gate count; a missing "gate" item with gates > 0 is no error and
   yields the five required lines only.                                   *)
C7_FirstMatchOrCategoryError ==
    Returned("build_fence_bom") =>
        LET missing == {k \in 1..Len(RequiredCategories) : ~HasCategory(RequiredCategories[k])}
        IN  /\ missing # {} =>
                 /\ result.kind = "raise" /\ result.type = "KeyError"
                 /\ result.text = NoCategoryText
                 /\ \E k \in missing : /\ \A m \in missing : k <= m
                                       /\ result.arg = RequiredCategories[k]
            /\ missing = {} =>
                 /\ result.kind = "bom"
                 /\ \A k \in 1..Len(RequiredCategories) :
                       \E j \in 1..Len(pricebook) :
                          /\ pricebook[j].sku = result.bom[k].sku
                          /\ pricebook[j].category = RequiredCategories[k]
                          /\ \A i \in 1..(j - 1) : pricebook[i].category # RequiredCategories[k]
                 /\ (call.fence.gates > 0 /\ ~HasCategory("gate")) => Len(result.bom) = 5

(* Two "post" items and a "Post" item ahead of them, no "gate" item, and a
   gate asked for: the first "post" item is taken and no gate line is made. *)
C7_Witness ==
    /\ Returned("build_fence_bom") /\ AllRequiredPresent
    /\ Cardinality({j \in 1..Len(pricebook) : pricebook[j].category = "post"}) = 2
    /\ pricebook[1].category = "Post"
    /\ ~HasCategory("gate") /\ call.fence.gates > 0
    /\ result.kind = "bom" /\ Len(result.bom) = 5

(* C8: for every fence input build_fence_bom takes and every catalog with
   the required categories, each of the post, rail, picket, concrete and
   fastener lines has a quantity > 0, so calculate_estimate on the returned
   BOM never raises "Quantity must be positive".                          *)
C8_RequiredQuantitiesPositive ==
    (Returned("build_fence_bom") /\ result.kind = "bom") =>
        /\ \A k \in 1..5 : result.bom[k].quantity > 0
        /\ \A r \in calculate_estimate(pricebook, result.bom, 0, 0, 0) :
              ~(r.kind = "raise" /\ r.text = QuantityText)

(* C9 as stated: the sum of the returned extended prices differs from the
   returned materials_subtotal by at most half a cent times the number of
   lines.                                                                 *)
C9_DriftWithinHalfCentPerLine ==
    (Returned("calculate_estimate") /\ ValidCall) =>
        /\ result.kind = "breakdown"
        /\ 2 * Abs(SumExtended(Len(result.line_items)) - result.materials_subtotal)
              <= Len(result.line_items)

(* C9 amended: the difference is at most half a cent times the number of
   lines plus one (the rounding of the sum adds its own half cent).       *)
C9_DriftWithinHalfCentPerRounding ==
    (Returned("calculate_estimate") /\ ValidCall) =>
        /\ result.kind = "breakdown"
        /\ 2 * Abs(SumExtended(Len(result.line_items)) - result.materials_subtotal)
              <= Len(result.line_items) + 1

(* Three lines whose rounded prices sum to two cents more than the subtotal. *)
C9_Witness ==
    /\ Returned("calculate_estimate") /\ ValidCall
    /\ result.kind = "breakdown" /\ Len(result.line_items) = 3
    /\ Abs(SumExtended(3) - result.materials_subtotal) = 2

(* C10: calculate_estimate called with no line items and non-negative labor
   and margin returns a breakdown with no lines, materials_subtotal 0 and
   total = round(labor_hours * labor_rate * (1 + margin_pct / 100), 2);
   the /estimate and /po handlers answer an empty line_items list with 400
   before calculate_estimate is called.                                   *)
C10_EmptyInputCoreAndCallers ==
    /\ (Returned("calculate_estimate") /\ LaborValid /\ call.line_items = <<>>) =>
          /\ result.kind = "breakdown"
          /\ result.line_items = <<>>
          /\ result.materials_subtotal = 0
          /\ NearestCent(result.total,
                         call.labor_hours * call.labor_rate * (100 + call.margin_pct),
                         QDen * PDen * 100)
    /\ ((Returned("create_estimate") \/ Returned("create_purchase_order"))
        /\ call.line_items = <<>>) =>
          /\ result.kind = "http_error" /\ result.status_code = 400
          /\ calc_calls = 0

=============================================================================
